---- MODULE Spec2Model ----
(***************************************************************************)
(* A model of the conjecture-generation engine of src/conjecture.py:       *)
(* GraphExpression (postfix stacks, evaluate, all_expressions),            *)
(* GraphStatement (evaluate) and GraphBrain.conjecture.                    *)
(*                                                                         *)
(* Functions are modelled by their names (strings); a GraphExpression is   *)
(* modelled by its _stack, a sequence of function names.                   *)
(***************************************************************************)
EXTENDS Integers, Sequences, FiniteSets, TLC

VARIABLES
    graph_invariants,   \* GraphExpression._graph_invariants (the leaf registry)
    pc,                 \* position of the running call
    complexity,         \* all_expressions: argument
    without,            \* all_expressions: argument
    new_expressions,    \* all_expressions: local list
    returned,           \* all_expressions: returned value
    used,               \* all_expressions: the lower-complexity expressions the loops used
    cache,              \* memoize: func._cache, from argument tuples to results
    expression,         \* the GraphExpression evaluated (its _stack)
    g,                  \* the graph an expression or statement is evaluated on
    value,              \* GraphExpression.evaluate: outcome (value or raised error)
    lhs,                \* GraphStatement: self.lhs
    comparator,         \* GraphStatement: self.comparator / conjecture: argument
    rhs,                \* GraphStatement: self.rhs
    truth,              \* GraphStatement.evaluate: outcome (boolean or raised error)
    invariant,          \* conjecture: argument (the target invariant)
    complexity_limit,   \* GraphBrain._complexity_limit
    graph_db,           \* GraphBrain._graph_db
    statements,         \* conjecture: local list of the candidate statements
    conjectures,        \* conjecture: local list of the statements kept so far
    gi,                 \* conjecture: index of the graph the loop is at
    result,             \* conjecture: returned collection
    raised,             \* conjecture: the error the call ended with
    runs,               \* number of calls of conjecture so far
    allocated,          \* number of GraphStatement objects constructed so far
    previous            \* the candidates and the outcome of the call before this one

exprVars == <<complexity, without, new_expressions, returned, used, cache>>

evalVars == <<expression, g, value, lhs, rhs, truth>>

conjVars ==
    <<invariant, complexity_limit, graph_db, statements, conjectures, gi, result, raised,
      runs, allocated, previous>>

vars == <<graph_invariants, pc, comparator, exprVars, evalVars, conjVars>>

(***************************************************************************)
(* Bounds of the model.                                                    *)
(***************************************************************************)
MaxComplexity == 4

\* longest stack handed to GraphExpression.evaluate
MaxLen == 3

\* largest value of a graph invariant
MaxInv == 2

\* largest complexity limit conjecture runs with
MaxLimit == 3

\* number of calls of conjecture in one process
MaxRuns == 2

\* largest complexity the memoized all_expressions is called with
MaxMemoized == 3

\* Numbers are fixed-point: a value x is held as the integer x * Scale,
\* Scale = 2^FracBits, and results are rounded down to that grid (the code
\* computes with Python ints and floats).
FracBits == 2

\* largest magnitude (in units of 1/Scale) a power may return
FloatMax == 30000

(***************************************************************************)
(* The operator registry (class attributes of GraphExpression).            *)
(***************************************************************************)
unary_operators == <<"sqrt", "increment">>

binary_commutative_operators == <<"add", "mul">>

binary_noncommutative_operators == <<"sub", "truediv", "pow">>

\* The registries the leaf list is drawn from: the source's list and its
\* sub-lists, in either order.
Registries ==
    { <<"alpha", "min_degree">>, <<"min_degree", "alpha">>,
      <<"alpha">>, <<"min_degree">> }

\* The values `without` takes: None or a leaf invariant.
Withouts == {"None", "alpha", "min_degree"}

Range(s) == { s[i] : i \in DOMAIN s }

RECURSIVE Concat(_)
Concat(ss) == IF ss = <<>> THEN <<>> ELSE Head(ss) \o Concat(Tail(ss))

(***************************************************************************)
(* Graphs and numbers.                                                     *)
(***************************************************************************)
Scale == 2 ^ FracBits

\* Outcome of a computation: a value, or the error it raised.
Ok(v) == [err |-> "", val |-> v]

Raise(e) == [err |-> e, val |-> 0]

NoValue == [err |-> "none", val |-> 0]

\* what is known of the call of conjecture before the first one
NoRun == [statements |-> <<>>, result |-> {}, raised |-> ""]

\* A graph, by what the two invariants read of it: its independence number
\* and the set of its vertex degrees (empty for the graph without vertices).
Graph(a, degrees) == [alpha |-> a, degree |-> degrees]

NoGraph == Graph(0, {})

Graphs ==
    {Graph(0, {})} \cup { Graph(a, {d}) : a \in 1..MaxInv, d \in 0..MaxInv }

SetMin(S) == CHOOSE x \in S : \A y \in S : x <= y

\* INPGraph.alpha / INPGraph.min_degree (min of an empty list raises)
InvariantValue(f, gr) ==
    IF f = "alpha" THEN Ok(gr.alpha * Scale)
    ELSE IF gr.degree = {} THEN Raise("ValueError")
    ELSE Ok(SetMin(gr.degree) * Scale)

RECURSIVE ISqrtFrom(_, _)
ISqrtFrom(n, r) == IF (r + 1) * (r + 1) > n THEN r ELSE ISqrtFrom(n, r + 1)

\* math.sqrt
Sqrt(x) == IF x < 0 THEN Raise("ValueError") ELSE Ok(ISqrtFrom(x * Scale, 0))

\* increment = lambda x: x + 1
Increment(x) == Ok(x + Scale)

Mul(x, y) == (x * y) \div Scale

\* operator.truediv
TrueDiv(x, y) ==
    IF y = 0 THEN Raise("ZeroDivisionError")
    ELSE IF y < 0 THEN Ok(((0 - x) * Scale) \div (0 - y))
    ELSE Ok((x * Scale) \div y)

InRange(v) == v <= FloatMax /\ 0 - FloatMax <= v

\* p * x, or FloatMax + 1 once a factor or the product is out of range
MulInRange(p, x) ==
    IF InRange(p) /\ InRange(Mul(p, x)) THEN Mul(p, x) ELSE FloatMax + 1

\* x ^ n for an integer n >= 0; FloatMax + 1 once the result is out of range
RECURSIVE IntPow(_, _)
IntPow(x, n) == IF n = 0 THEN Scale ELSE MulInRange(IntPow(x, n - 1), x)

\* root ^ (f / 2^bits) for 0 <= f < 2^bits, by repeated square roots
RECURSIVE FracPow(_, _, _)
FracPow(root, f, bits) ==
    IF bits = 0 THEN Scale
    ELSE IF f >= 2 ^ (bits - 1)
    THEN Mul(root, FracPow(ISqrtFrom(root * Scale, 0), f - 2 ^ (bits - 1), bits - 1))
    ELSE FracPow(ISqrtFrom(root * Scale, 0), f, bits - 1)

\* x ^ (n + f / Scale) from whole = x ^ |n| and frac = x ^ (f / Scale)
PowResult(n, whole, frac) ==
    IF ~ InRange(whole) \/ whole = 0 THEN Raise("OverflowError")
    ELSE IF n >= 0 THEN Ok(Mul(whole, frac))
    ELSE Ok(Mul((Scale * Scale) \div whole, frac))

Abs(n) == IF n >= 0 THEN n ELSE 0 - n

\* operator.pow
Pow(x, y) ==
    IF x = 0 /\ y < 0 THEN Raise("ZeroDivisionError")
    ELSE IF x < 0 /\ y % Scale # 0 THEN Raise("ValueError")
    ELSE IF x = 0 THEN Ok(IF y = 0 THEN Scale ELSE 0)
    ELSE PowResult(y \div Scale,
                   IntPow(x, Abs(y \div Scale)),
                   FracPow(ISqrtFrom(x * Scale, 0), y % Scale, FracBits))

\* op(x) for a unary operator of the registry
ApplyUnary(op, x) == IF op = "sqrt" THEN Sqrt(x) ELSE Increment(x)

\* op(x, y) for a binary operator of the registry
ApplyBinary(op, x, y) ==
    CASE op = "add" -> Ok(x + y)
      [] op = "mul" -> Ok(Mul(x, y))
      [] op = "sub" -> Ok(x - y)
      [] op = "truediv" -> TrueDiv(x, y)
      [] op = "pow" -> Pow(x, y)

\* comparator(x, y) for the six relations of the operator module
Comparators == {"lt", "le", "eq", "ne", "ge", "gt"}

Compare(cmp, x, y) ==
    CASE cmp = "lt" -> x < y
      [] cmp = "le" -> x <= y
      [] cmp = "eq" -> x = y
      [] cmp = "ne" -> x # y
      [] cmp = "ge" -> x >= y
      [] cmp = "gt" -> x > y

(***************************************************************************)
(* GraphExpression.append / GraphExpression.extend: a new expression.      *)
(***************************************************************************)
\* an append that puts the new element first
append_in_front(stack, x) == <<x>> \o stack

append(stack, x) == stack \o <<x>>

\* an extend that leaves the second operand out
extend_dropping_operand(stack, li) == stack

extend(stack, li) == stack \o li

\* An expression object the enumerator built and then used: the stack it was
\* created with and the stack it has now.
Expression(stack) == [created |-> stack, stack |-> stack]

\* an append that works in place, as self._stack.append(x) would
AfterAppend_in_place(stack, x) == stack \o <<x>>

\* self._stack after self.append(x): self._stack + [x] builds a new list
AfterAppend(stack, x) == stack

\* self._stack after self.extend(li): self._stack + li builds a new list
AfterExtend(stack, li) == stack

\* the list li after receiver.extend(li)
ArgumentAfterExtend(stack, li) == li

\* the receiver after s.append(op) for the first n operators of the list
RECURSIVE Appended(_, _, _)
Appended(e, ops, n) ==
    IF n = 0 THEN e
    ELSE [Appended(e, ops, n - 1) EXCEPT !.stack = AfterAppend(@, ops[n])]

\* the receiver after a.extend(li) for the first n lists
RECURSIVE Extended(_, _, _)
Extended(e, lis, n) ==
    IF n = 0 THEN e
    ELSE [Extended(e, lis, n - 1) EXCEPT !.stack = AfterExtend(@, lis[n])]

\* the expression whose stack was the argument of extend on the first n receivers
RECURSIVE PassedTo(_, _, _)
PassedTo(e, receivers, n) ==
    IF n = 0 THEN e
    ELSE [PassedTo(e, receivers, n - 1) EXCEPT !.stack = ArgumentAfterExtend(receivers[n], @)]

(***************************************************************************)
(* GraphExpression.all_expressions                                         *)
(***************************************************************************)
\* Python values returned by all_expressions: a list of expressions, or (for
\* complexity < 1) one GraphExpression object with an empty stack.
PyList(items) == [type |-> "list", value |-> items]

PyGraphExpression(stack) == [type |-> "GraphExpression", value |-> stack]

\* ceil(float(complexity)/2)
CeilHalf(c) == (c + 1) \div 2

\* the leaves with the exclusion ignored
LeafExpressions_unfiltered(w) ==
    [i \in 1..Len(graph_invariants) |-> <<graph_invariants[i]>>]

\* the leaves with the filter turned around: only the excluded one is kept
LeafExpressions_only_excluded(w) ==
    SelectSeq([i \in 1..Len(graph_invariants) |-> <<graph_invariants[i]>>],
              LAMBDA e : e[1] = w)

\* the base case: [GraphExpression([f]) for f in cls._graph_invariants if not f == without]
LeafExpressions(w) ==
    SelectSeq([i \in 1..Len(graph_invariants) |-> <<graph_invariants[i]>>],
              LAMBDA e : e[1] # w)

\* a unary loop that applies the first operator at every turn
UnaryExtension_first_operator(prev) ==
    Concat([i \in 1..Len(prev) |->
              [j \in 1..Len(unary_operators) |-> append(prev[i], unary_operators[1])]])

\* for s in <prev>: for op in cls._unary_operators: new_expressions += [s.append(op)]
UnaryExtension(prev) ==
    Concat([i \in 1..Len(prev) |->
              [j \in 1..Len(unary_operators) |-> append(prev[i], unary_operators[j])]])

\* a skip test that knows subtraction only
SkipSelfTrivial_sub_only(a, b, op) == a = b /\ op = "sub"

\* the skip test of the noncommutative loop
SkipSelfTrivial(a, b, op) == a = b /\ op \in {"sub", "truediv"}

\* for a in strings_a: for b in strings_b: for op in noncommutative: skip or add
NoncommutativePairs(strings_a, strings_b) ==
    Concat([i \in 1..Len(strings_a) |->
      Concat([j \in 1..Len(strings_b) |->
        Concat([k \in 1..Len(binary_noncommutative_operators) |->
          IF SkipSelfTrivial(strings_a[i], strings_b[j], binary_noncommutative_operators[k])
          THEN <<>>
          ELSE << append(extend(strings_a[i], strings_b[j]),
                         binary_noncommutative_operators[k]) >>])])])

\* for i, a in enumerate(strings_a): for b in strings_a[i:]: for op in commutative
CommutativeSamePairs(strings_a) ==
    Concat([i \in 1..Len(strings_a) |->
      Concat([j \in 1..(Len(strings_a) - i + 1) |->
        [k \in 1..Len(binary_commutative_operators) |->
          append(extend(strings_a[i], strings_a[i + j - 1]),
                 binary_commutative_operators[k])]])])

\* for a in strings_a: for b in strings_b: for op in commutative
CommutativeCrossPairs(strings_a, strings_b) ==
    Concat([i \in 1..Len(strings_a) |->
      Concat([j \in 1..Len(strings_b) |->
        [k \in 1..Len(binary_commutative_operators) |->
          append(extend(strings_a[i], strings_b[j]),
                 binary_commutative_operators[k])]])])

\* The lower-complexity expressions a loop used, with the stacks they are left
\* with: s for every s.append(op) of the unary loop,
UsedByUnary(prev) ==
    [i \in 1..Len(prev) |->
        Appended(Expression(prev[i]), unary_operators, Len(unary_operators))]

ExtendedBy(e, lis) == Extended(e, lis, Len(lis))

PassedToAll(e, receivers) == PassedTo(e, receivers, Len(receivers))

\* the stacks b._stack that a.extend is called with in the noncommutative loop
NoncommutativeArguments(a, strings_b) ==
    Concat([j \in 1..Len(strings_b) |->
      Concat([k \in 1..Len(binary_noncommutative_operators) |->
        IF SkipSelfTrivial(a, strings_b[j], binary_noncommutative_operators[k])
        THEN <<>> ELSE << strings_b[j] >>])])

\* the stacks of the receivers a whose extend is called with b._stack
NoncommutativeReceivers(b, strings_a) ==
    Concat([i \in 1..Len(strings_a) |->
      Concat([k \in 1..Len(binary_noncommutative_operators) |->
        IF SkipSelfTrivial(strings_a[i], b, binary_noncommutative_operators[k])
        THEN <<>> ELSE << strings_a[i] >>])])

\* a and b for every a.extend(b._stack) of the noncommutative loop,
UsedByNoncommutative(strings_a, strings_b) ==
    [i \in 1..Len(strings_a) |->
        ExtendedBy(Expression(strings_a[i]),
                   NoncommutativeArguments(strings_a[i], strings_b))]
    \o [j \in 1..Len(strings_b) |->
        PassedToAll(Expression(strings_b[j]),
                    NoncommutativeReceivers(strings_b[j], strings_a))]

\* every stack of the list, once per commutative operator
CommutativeArguments(strings) ==
    Concat([j \in 1..Len(strings) |->
              [k \in 1..Len(binary_commutative_operators) |-> strings[j]]])

\* a (receiver of extend with strings_a[i:], argument of the a's up to it) in
\* the same-complexity branch of the commutative loop,
UsedBySame(strings_a) ==
    [i \in 1..Len(strings_a) |->
        PassedToAll(
            ExtendedBy(Expression(strings_a[i]),
                       CommutativeArguments(SubSeq(strings_a, i, Len(strings_a)))),
            CommutativeArguments(SubSeq(strings_a, 1, i)))]

\* and a and b in its different-complexity branch.
UsedByCross(strings_a, strings_b) ==
    [i \in 1..Len(strings_a) |->
        ExtendedBy(Expression(strings_a[i]), CommutativeArguments(strings_b))]
    \o [j \in 1..Len(strings_b) |->
        PassedToAll(Expression(strings_b[j]), CommutativeArguments(strings_a))]

\* the noncommutative loop with one split more, whose second part is empty
NoncommutativeSplits_one_more(c) == 1..(c - 1)

\* the noncommutative loop over the splits of the commutative loop
NoncommutativeSplits_half(c) == 1..(CeilHalf(c) - 1)

\* range(1, complexity - 1)
NoncommutativeSplits(c) == 1..(c - 2)

\* the commutative loop over every split, as the noncommutative loop has it
CommutativeSplits_every_split(c) == 1..(c - 2)

\* the commutative loop with the midpoint rounded down
CommutativeSplits_floor(c) == 1..((c \div 2) - 1)

\* range(1, ceil(float(complexity)/2))
CommutativeSplits(c) == 1..(CeilHalf(c) - 1)

RECURSIVE all_expressions(_, _)
all_expressions(c, w) ==
    IF c < 1 THEN PyGraphExpression(<<>>)
    ELSE IF c = 1 THEN PyList(LeafExpressions(w))
    ELSE
      LET unary == UnaryExtension(all_expressions(c - 1, w).value)
          noncomm ==
            Concat([i \in NoncommutativeSplits(c) |->
                      NoncommutativePairs(all_expressions(i, w).value,
                                          all_expressions(c - 1 - i, w).value)])
          comm ==
            Concat([k \in CommutativeSplits(c) |->
                      IF k = c - 1 - k
                      THEN CommutativeSamePairs(all_expressions(k, w).value)
                      ELSE CommutativeCrossPairs(all_expressions(k, w).value,
                                                 all_expressions(c - 1 - k, w).value)])
      IN PyList(unary \o noncomm \o comm)

(***************************************************************************)
(* One call of all_expressions, step by step (its three loops).            *)
(***************************************************************************)
InitExpressions ==
    /\ graph_invariants \in Registries
    /\ pc = "ready"
    /\ complexity = 0
    /\ without = "None"
    /\ new_expressions = <<>>
    /\ returned = PyList(<<>>)
    /\ used = <<>>
    /\ cache = <<>>
    /\ comparator = "lt"
    /\ expression = <<>>
    /\ g = NoGraph
    /\ value = NoValue
    /\ lhs = <<>>
    /\ rhs = <<>>
    /\ truth = NoValue
    /\ invariant = "alpha"
    /\ complexity_limit = 0
    /\ graph_db = <<>>
    /\ statements = <<>>
    /\ conjectures = <<>>
    /\ gi = 0
    /\ result = {}
    /\ raised = ""
    /\ runs = 0
    /\ allocated = 0
    /\ previous = NoRun

\* the call: the branches complexity < 1 and complexity == 1 return at once
Call(c, w) ==
    /\ pc = "ready"
    /\ complexity' = c
    /\ without' = w
    /\ new_expressions' = <<>>
    /\ used' = <<>>
    /\ IF c <= 1
       THEN /\ returned' = all_expressions(c, w)
            /\ pc' = "returned"
       ELSE /\ returned' = returned
            /\ pc' = "unary"
    /\ UNCHANGED <<graph_invariants, cache, comparator, evalVars, conjVars>>

UnaryLoop ==
    /\ pc = "unary"
    /\ new_expressions' =
         new_expressions \o UnaryExtension(all_expressions(complexity - 1, without).value)
    /\ used' = used \o UsedByUnary(all_expressions(complexity - 1, without).value)
    /\ pc' = "noncommutative"
    /\ UNCHANGED <<graph_invariants, complexity, without, returned, cache, comparator,
                   evalVars, conjVars>>

NoncommutativeLoop ==
    /\ pc = "noncommutative"
    /\ new_expressions' =
         new_expressions \o
         Concat([i \in NoncommutativeSplits(complexity) |->
                   NoncommutativePairs(all_expressions(i, without).value,
                                       all_expressions(complexity - 1 - i, without).value)])
    /\ used' =
         used \o
         Concat([i \in NoncommutativeSplits(complexity) |->
                   UsedByNoncommutative(all_expressions(i, without).value,
                                        all_expressions(complexity - 1 - i, without).value)])
    /\ pc' = "commutative"
    /\ UNCHANGED <<graph_invariants, complexity, without, returned, cache, comparator,
                   evalVars, conjVars>>

\* the last loop and the return that follows it
CommutativeLoop ==
    /\ pc = "commutative"
    /\ LET comm ==
             Concat([k \in CommutativeSplits(complexity) |->
                       IF k = complexity - 1 - k
                       THEN CommutativeSamePairs(all_expressions(k, without).value)
                       ELSE CommutativeCrossPairs(
                              all_expressions(k, without).value,
                              all_expressions(complexity - 1 - k, without).value)])
       IN /\ new_expressions' = new_expressions \o comm
          /\ returned' = PyList(new_expressions \o comm)
    /\ used' =
         used \o
         Concat([k \in CommutativeSplits(complexity) |->
                   IF k = complexity - 1 - k
                   THEN UsedBySame(all_expressions(k, without).value)
                   ELSE UsedByCross(all_expressions(k, without).value,
                                    all_expressions(complexity - 1 - k, without).value)])
    /\ pc' = "returned"
    /\ UNCHANGED <<graph_invariants, complexity, without, cache, comparator, evalVars,
                   conjVars>>

NextExpressions ==
    \/ \E c \in 0..MaxComplexity, w \in Withouts : Call(c, w)
    \/ UnaryLoop
    \/ NoncommutativeLoop
    \/ CommutativeLoop

SpecExpressions == InitExpressions /\ [][NextExpressions]_vars

(***************************************************************************)
(* GraphExpression.memoize, wrapped around all_expressions                 *)
(***************************************************************************)
\* The complexity arguments of the calls cls.all_expressions(.., without) that
\* a call at complexity c makes, in the order it makes them.
RecursiveCalls(c) ==
    IF c <= 1 THEN <<>>
    ELSE <<c - 1>>
         \o Concat([i \in NoncommutativeSplits(c) |-> <<i, c - 1 - i>>])
         \o Concat([k \in CommutativeSplits(c) |->
                      IF k = c - 1 - k THEN <<k>> ELSE <<k, c - 1 - k>>])

\* args, the key of func._cache
Key(c, w) == <<c, w>>

\* func(*args) when its recursive calls go through the wrapper: the body of
\* all_expressions, each cls.all_expressions(i, without) read from the cache
\* that the calls have filled
Body(warm, c, w) ==
    IF c < 1 THEN PyGraphExpression(<<>>)
    ELSE IF c = 1 THEN PyList(LeafExpressions(w))
    ELSE PyList(
           UnaryExtension(warm[Key(c - 1, w)].value)
           \o Concat([i \in NoncommutativeSplits(c) |->
                        NoncommutativePairs(warm[Key(i, w)].value,
                                            warm[Key(c - 1 - i, w)].value)])
           \o Concat([k \in CommutativeSplits(c) |->
                        IF k = c - 1 - k
                        THEN CommutativeSamePairs(warm[Key(k, w)].value)
                        ELSE CommutativeCrossPairs(warm[Key(k, w)].value,
                                                   warm[Key(c - 1 - k, w)].value)]))

\* func._cache[args] = func(*args)
Store(warm, c, w) == warm @@ (Key(c, w) :> Body(warm, c, w))

\* wrap(*args): the cache after the call; and the cache after the first n
\* recursive calls of a call
RECURSIVE Wrap(_, _, _)
RECURSIVE Warmed(_, _, _, _)
Wrap(before, c, w) ==
    IF Key(c, w) \in DOMAIN before THEN before
    ELSE Store(Warmed(before, RecursiveCalls(c), w, Len(RecursiveCalls(c))), c, w)

Warmed(before, calls, w, n) ==
    IF n = 0 THEN before
    ELSE Wrap(Warmed(before, calls, w, n - 1), calls[n], w)

InitMemoize ==
    /\ graph_invariants \in Registries
    /\ pc = "ready"
    /\ complexity = 0
    /\ without = "None"
    /\ new_expressions = <<>>
    /\ returned = PyList(<<>>)
    /\ used = <<>>
    /\ cache = <<>>
    /\ comparator = "lt"
    /\ expression = <<>>
    /\ g = NoGraph
    /\ value = NoValue
    /\ lhs = <<>>
    /\ rhs = <<>>
    /\ truth = NoValue
    /\ invariant = "alpha"
    /\ complexity_limit = 0
    /\ graph_db = <<>>
    /\ statements = <<>>
    /\ conjectures = <<>>
    /\ gi = 0
    /\ result = {}
    /\ raised = ""
    /\ runs = 0
    /\ allocated = 0
    /\ previous = NoRun

\* all_expressions(c, w) on the wrapped function, arguments by position
MemoizedCall(c, w) ==
    /\ complexity' = c
    /\ without' = w
    /\ cache' = Wrap(cache, c, w)
    /\ returned' = cache'[Key(c, w)]
    /\ raised' = ""
    /\ pc' = "returned"
    /\ UNCHANGED <<graph_invariants, new_expressions, used, comparator, evalVars,
                   invariant, complexity_limit, graph_db, statements, conjectures, gi,
                   result, runs, allocated, previous>>

\* all_expressions(c, without=w) on the wrapped function, as conjecture calls
\* it: wrap(*args) takes no keyword argument
MemoizedKeywordCall(c, w) ==
    /\ complexity' = c
    /\ without' = w
    /\ raised' = "TypeError"
    /\ pc' = "raised"
    /\ UNCHANGED <<graph_invariants, new_expressions, returned, used, cache, comparator,
                   evalVars, invariant, complexity_limit, graph_db, statements,
                   conjectures, gi, result, runs, allocated, previous>>

NextMemoize ==
    \/ \E c \in 0..MaxMemoized, w \in Withouts : MemoizedCall(c, w)
    \/ \E c \in 0..MaxMemoized, w \in Withouts : MemoizedKeywordCall(c, w)

SpecMemoize == InitMemoize /\ [][NextMemoize]_vars

(***************************************************************************)
(* Postfix structure of a stack, by the roles the registry gives.          *)
(***************************************************************************)
IsInvariant(op) == op \in Range(graph_invariants)

IsUnary(op) == op \in Range(unary_operators)

IsBinary(op) ==
    op \in Range(binary_commutative_operators) \cup Range(binary_noncommutative_operators)

\* Height of the simulated evaluation stack after the first n elements; -1 once
\* an operator found too few values or an element has no role.
RECURSIVE Height(_, _)
Height(stack, n) ==
    IF n = 0 THEN 0
    ELSE LET h == Height(stack, n - 1)
             op == stack[n]
         IN IF h < 0 THEN -1
            ELSE IF IsInvariant(op) THEN h + 1
            ELSE IF IsUnary(op) THEN (IF h >= 1 THEN h ELSE -1)
            ELSE IF IsBinary(op) THEN (IF h >= 2 THEN h - 1 ELSE -1)
            ELSE -1

WellFormed(stack) == Height(stack, Len(stack)) = 1

\* Length of the sub-expression of a well-formed stack that ends at index e.
RECURSIVE SubLen(_, _)
SubLen(stack, e) ==
    IF IsUnary(stack[e]) THEN 1 + SubLen(stack, e - 1)
    ELSE IF IsBinary(stack[e])
    THEN LET lb == SubLen(stack, e - 1)
         IN 1 + lb + SubLen(stack, e - 1 - lb)
    ELSE 1

\* The operand sub-stacks of the binary operator at index e: A (pushed first)
\* and B (pushed second).
OperandB(stack, e) == SubSeq(stack, e - SubLen(stack, e - 1), e - 1)

OperandA(stack, e) ==
    LET lb == SubLen(stack, e - 1)
    IN SubSeq(stack, e - lb - SubLen(stack, e - 1 - lb), e - 1 - lb)

(***************************************************************************)
(* GraphExpression.evaluate                                                *)
(***************************************************************************)
Last(s) == s[Len(s)]

Pop(s) == SubSeq(s, 1, Len(s) - 1)

\* The operands a binary operator is applied to, in the order of the call
\* op(stack.pop(), stack.pop()): the first argument is the value popped
\* first (the top), the second argument the value popped second.
BinaryCall(op, st) == ApplyBinary(op, Last(st), Last(Pop(st)))

\* stack.append(r) for the outcome r of a call: [err, st], the error the
\* call raised or the evaluation stack with its value on top.
Push(st, r) == [err |-> r.err, st |-> IF r.err = "" THEN Append(st, r.val) ELSE st]

\* One turn of the loop `for op in self._stack`, on the evaluation stack st;
\* a pop from the empty stack raises IndexError, an element in no list of the
\* registry is passed over.
EvalStep(op, st, gr) ==
    IF IsInvariant(op) THEN Push(st, InvariantValue(op, gr))
    ELSE IF IsUnary(op)
    THEN IF st = <<>> THEN [err |-> "IndexError", st |-> st]
         ELSE Push(Pop(st), ApplyUnary(op, Last(st)))
    ELSE IF IsBinary(op)
    THEN IF Len(st) < 2 THEN [err |-> "IndexError", st |-> st]
         ELSE Push(Pop(Pop(st)), BinaryCall(op, st))
    ELSE [err |-> "", st |-> st]

\* a turn after the turns before it: nothing more once one has raised
EvalTurn(op, before, gr) ==
    IF before.err # "" THEN before ELSE EvalStep(op, before.st, gr)

\* The loop over the first n elements of the stack.
RECURSIVE EvalLoop(_, _, _)
EvalLoop(stk, n, gr) ==
    IF n = 0 THEN [err |-> "", st |-> <<>>]
    ELSE EvalTurn(stk[n], EvalLoop(stk, n - 1, gr), gr)

\* return stack.pop()
EvalReturn(r) ==
    IF r.err # "" THEN Raise(r.err)
    ELSE IF r.st = <<>> THEN Raise("IndexError")
    ELSE Ok(Last(r.st))

\* evaluate(self, g): the loop, then the return
evaluate(stk, gr) == EvalReturn(EvalLoop(stk, Len(stk), gr))

(***************************************************************************)
(* GraphStatement                                                          *)
(***************************************************************************)
\* the errors GraphStatement.evaluate catches
Caught == {"ValueError", "ZeroDivisionError"}

\* a bare except: every error of a side makes the statement False
TryCompare_bare_except(cmp, lv, rv) ==
    IF lv.err # "" THEN Ok(FALSE)
    ELSE IF rv.err # "" THEN Ok(FALSE)
    ELSE Ok(Compare(cmp, lv.val, rv.val))

\* try: return self.comparator(lv, rv) / except (ValueError, ZeroDivisionError):
\* return False, for the outcomes lv and rv of the two sides: lhs is evaluated
\* first, then rhs; a caught error makes the statement False, any other error
\* is raised.
TryCompare(cmp, lv, rv) ==
    IF lv.err \in Caught THEN Ok(FALSE)
    ELSE IF lv.err # "" THEN [err |-> lv.err, val |-> FALSE]
    ELSE IF rv.err \in Caught THEN Ok(FALSE)
    ELSE IF rv.err # "" THEN [err |-> rv.err, val |-> FALSE]
    ELSE Ok(Compare(cmp, lv.val, rv.val))

\* evaluate(self, g)
StatementEvaluate(l, cmp, r, gr) == TryCompare(cmp, evaluate(l, gr), evaluate(r, gr))

(***************************************************************************)
(* Evaluating one expression, or one statement, on one graph.              *)
(***************************************************************************)
\* every name a stack may hold: the registry's functions and decrement, a
\* function of GraphExpression that is in no list of the registry
Symbols ==
    {"alpha", "min_degree", "decrement"} \cup Range(unary_operators)
      \cup Range(binary_commutative_operators)
      \cup Range(binary_noncommutative_operators)

Stacks(n) == UNION { [1..k -> Symbols] : k \in 1..n }

InitEvaluate ==
    /\ graph_invariants = <<"alpha", "min_degree">>
    /\ pc = "ready"
    /\ expression \in Stacks(MaxLen)
    /\ g \in Graphs
    /\ value = NoValue
    /\ lhs = <<>>
    /\ rhs = <<>>
    /\ comparator = "lt"
    /\ truth = NoValue
    /\ invariant = "alpha"
    /\ complexity_limit = 0
    /\ graph_db = <<>>
    /\ statements = <<>>
    /\ conjectures = <<>>
    /\ gi = 0
    /\ result = {}
    /\ raised = ""
    /\ runs = 0
    /\ allocated = 0
    /\ previous = NoRun
    /\ complexity = 0
    /\ without = "None"
    /\ new_expressions = <<>>
    /\ returned = PyList(<<>>)
    /\ used = <<>>
    /\ cache = <<>>

\* GraphExpression(stack).evaluate(g)
ExpressionEvaluate ==
    /\ pc = "ready"
    /\ value' = evaluate(expression, g)
    /\ pc' = "evaluated"
    /\ UNCHANGED <<graph_invariants, comparator, exprVars, expression, g, lhs, rhs, truth, conjVars>>

\* GraphStatement(l, cmp, r).evaluate(g), one side the expression (a postfix
\* program, or any single function), the other side a bare invariant f (which
\* __init__ wraps into GraphExpression([f]))
GraphStatementEvaluate(cmp, f, swap) ==
    /\ pc = "ready"
    /\ WellFormed(expression) \/ Len(expression) = 1
    /\ lhs' = IF swap THEN <<f>> ELSE expression
    /\ rhs' = IF swap THEN expression ELSE <<f>>
    /\ truth' = StatementEvaluate(lhs', cmp, rhs', g)
    /\ comparator' = cmp
    /\ pc' = "statement_evaluated"
    /\ UNCHANGED <<graph_invariants, exprVars, expression, g, value, conjVars>>

NextEvaluate ==
    \/ ExpressionEvaluate
    \/ \E cmp \in Comparators, f \in {"alpha", "min_degree"}, swap \in BOOLEAN :
          GraphStatementEvaluate(cmp, f, swap)

SpecEvaluate == InitEvaluate /\ [][NextEvaluate]_vars

(***************************************************************************)
(* GraphBrain.conjecture                                                   *)
(***************************************************************************)
\* GraphBrain._graph_db: K3, the claw, the killer graph 'EXCO', C5 and the
\* Petersen graph, by independence number and degree set.
SourceGraphDb ==
    << Graph(1, {2}), Graph(3, {1, 3}), Graph(4, {1, 3}), Graph(2, {2}), Graph(4, {3}) >>

\* The graphs a corpus is made of: those of the source and the graph without
\* vertices, on which min_degree raises.
CorpusGraphs == SourceGraphDb \o << Graph(0, {}) >>

\* The sub-list of a list at a set of indices, in the list's order.
RECURSIVE SubList(_, _, _)
SubList(list, indices, n) ==
    IF n = 0 THEN <<>>
    ELSE IF n \in indices THEN Append(SubList(list, indices, n - 1), list[n])
    ELSE SubList(list, indices, n - 1)

Corpora ==
    { SubList(CorpusGraphs, S, Len(CorpusGraphs)) : S \in SUBSET (1..Len(CorpusGraphs)) }

\* Python objects the list `conjectures` holds. A GraphStatement defines no
\* __eq__: two statements are equal when they are the same object (id).
GraphStatement(id, l, cmp, r) ==
    [type |-> "GraphStatement", id |-> id, lhs |-> l, comparator |-> cmp, rhs |-> r]

PyTuple(a, b) == [type |-> "tuple", first |-> a, second |-> b]

\* x == y for two GraphStatement objects: the class defines neither __eq__
\* nor __cmp__, so two statements are equal when they are the same object.
StatementEquals(x, y) == x.id = y.id

\* Every GraphStatement(...) call constructs a new object: the statements of a
\* list built when `base` objects exist already.
Allocate(stmts, base) == [i \in 1..Len(stmts) |-> [stmts[i] EXCEPT !.id = base + i]]

\* a pool enumerated without the exclusion of the target
CandidateExpressions_with_target(limit, inv) ==
    Concat([c \in 1..limit |-> all_expressions(c, "None").value])

\* for c in range(1, cls._complexity_limit + 1):
\*     expressions += GraphExpression.all_expressions(c, without=invariant)
CandidateExpressions(limit, inv) ==
    Concat([c \in 1..limit |-> all_expressions(c, inv).value])

\* statements = map(lambda x: GraphStatement(x, comparator, rhs), expressions)
CandidateStatements(limit, cmp, inv) ==
    LET expressions == CandidateExpressions(limit, inv)
    IN [i \in 1..Len(expressions) |-> GraphStatement(i, expressions[i], cmp, <<inv>>)]

\* s.evaluate(g) for every statement of the list
StatementOutcomes(stmts, gr) ==
    [i \in 1..Len(stmts) |->
        StatementEvaluate(stmts[i].lhs, stmts[i].comparator, stmts[i].rhs, gr)]

Raising(outcomes) == { i \in 1..Len(outcomes) : outcomes[i].err # "" }

\* the error of the first statement whose evaluation raises, "" if none does
FirstRaised(outcomes) ==
    IF Raising(outcomes) = {} THEN "" ELSE outcomes[SetMin(Raising(outcomes))].err

\* true_statements = filter(lambda s: s.evaluate(g), statements)
TrueStatements(stmts, outcomes) ==
    SubList(stmts, { i \in 1..Len(stmts) : outcomes[i].val }, Len(stmts))

\* evaluated = map(lambda s: (s.lhs.evaluate(g), s), true_statements)
Evaluated(true_statements, gr) ==
    [i \in 1..Len(true_statements) |->
        PyTuple(evaluate(true_statements[i].lhs, gr).val, true_statements[i])]

\* the value of the first true statement instead of the largest
MaxFirst_first_value(evaluated) == evaluated[1].first

\* max(evaluated, key=operator.itemgetter(0))[0]
MaxFirst(evaluated) ==
    CHOOSE v \in { evaluated[i].first : i \in 1..Len(evaluated) } :
        \A i \in 1..Len(evaluated) : evaluated[i].first <= v

\* min(evaluated, key=operator.itemgetter(0))[0]
MinFirst(evaluated) ==
    CHOOSE v \in { evaluated[i].first : i \in 1..Len(evaluated) } :
        \A i \in 1..Len(evaluated) : evaluated[i].first >= v

\* conjectures += map(operator.itemgetter(1), filter(lambda s: s[0] == best, evaluated))
KeptUpper(evaluated, best) ==
    LET kept == SelectSeq(evaluated, LAMBDA t : t.first = best)
    IN [i \in 1..Len(kept) |-> kept[i].second]

\* conjectures += filter(lambda s: s[0] == best, evaluated)
KeptLower(evaluated, best) == SelectSeq(evaluated, LAMBDA t : t.first = best)

\* a selection that filters by tightness under every comparator
Selection_always_tightest(cmp, true_statements, evaluated) ==
    IF evaluated = <<>> THEN [err |-> "", kept |-> <<>>]
    ELSE [err |-> "", kept |-> KeptUpper(evaluated, MaxFirst(evaluated))]

\* The branches of the loop body on the true statements and their left-hand
\* values; max and min of an empty list raise ValueError.
Selection(cmp, true_statements, evaluated) ==
    IF cmp \in {"lt", "le"}
    THEN IF evaluated = <<>> THEN [err |-> "ValueError", kept |-> <<>>]
         ELSE [err |-> "", kept |-> KeptUpper(evaluated, MaxFirst(evaluated))]
    ELSE IF cmp \in {"gt", "ge"}
    THEN IF evaluated = <<>> THEN [err |-> "ValueError", kept |-> <<>>]
         ELSE [err |-> "", kept |-> KeptLower(evaluated, MinFirst(evaluated))]
    ELSE [err |-> "", kept |-> true_statements]

\* the loop body once the filter has run
AfterFilter(cmp, true_statements, gr) ==
    Selection(cmp, true_statements, Evaluated(true_statements, gr))

\* the loop body for the outcomes of the statements on the graph
TurnOf(cmp, stmts, outcomes, gr) ==
    IF FirstRaised(outcomes) # ""
    THEN [err |-> FirstRaised(outcomes), kept |-> <<>>]
    ELSE AfterFilter(cmp, TrueStatements(stmts, outcomes), gr)

\* One turn of `for g in cls._graph_db`: [err, kept], the error the turn
\* raises or the list it adds to conjectures.
GraphTurn(cmp, stmts, gr) == TurnOf(cmp, stmts, StatementOutcomes(stmts, gr), gr)

InitConjecture ==
    /\ graph_invariants \in Registries
    /\ complexity_limit \in 0..MaxLimit
    /\ graph_db \in Corpora
    /\ pc = "ready"
    /\ comparator = "lt"
    /\ invariant = "alpha"
    /\ statements = <<>>
    /\ conjectures = <<>>
    /\ gi = 0
    /\ result = {}
    /\ raised = ""
    /\ runs = 0
    /\ allocated = 0
    /\ previous = NoRun
    /\ expression = <<>>
    /\ g = NoGraph
    /\ value = NoValue
    /\ lhs = <<>>
    /\ rhs = <<>>
    /\ truth = NoValue
    /\ complexity = 0
    /\ without = "None"
    /\ new_expressions = <<>>
    /\ returned = PyList(<<>>)
    /\ used = <<>>
    /\ cache = <<>>

\* a conjectures list that keeps what the name held before
NewConjectures_left_over(before) == before

\* conjectures = []: a new list, whatever the name held before
NewConjectures(before) == <<>>

\* conjecture(cls, comparator, invariant), up to the loop over the graphs
Enter(cmp, inv) ==
    /\ comparator' = cmp
    /\ invariant' = inv
    /\ rhs' = <<inv>>
    /\ statements' = Allocate(CandidateStatements(complexity_limit, cmp, inv), allocated)
    /\ allocated' = allocated + Len(statements')
    /\ conjectures' = NewConjectures(conjectures)
    /\ gi' = 1
    /\ result' = {}
    /\ raised' = ""
    /\ runs' = runs + 1
    /\ pc' = "graphs"
    /\ UNCHANGED <<graph_invariants, exprVars, expression, g, value, lhs, truth,
                   complexity_limit, graph_db>>

\* the first call of conjecture
ConjectureCall(cmp, inv) ==
    /\ pc = "ready"
    /\ previous' = previous
    /\ Enter(cmp, inv)

\* the same call once more, in the same process, after the call before it
\* has returned or raised
ConjectureRepeat ==
    /\ pc \in {"returned", "raised"}
    /\ runs < MaxRuns
    /\ previous' = [statements |-> statements, result |-> result, raised |-> raised]
    /\ Enter(comparator, invariant)

\* one turn of the loop over the graphs
ConjectureGraph ==
    /\ pc = "graphs"
    /\ gi <= Len(graph_db)
    /\ \E turn \in {GraphTurn(comparator, statements, graph_db[gi])} :
          IF turn.err # ""
          THEN /\ raised' = turn.err
               /\ pc' = "raised"
               /\ UNCHANGED <<conjectures, gi>>
          ELSE /\ conjectures' = conjectures \o turn.kept
               /\ gi' = gi + 1
               /\ UNCHANGED <<pc, raised>>
    /\ g' = graph_db[gi]
    /\ UNCHANGED <<graph_invariants, comparator, exprVars, expression, value, lhs, rhs,
                   truth, invariant, complexity_limit, graph_db, statements, result,
                   runs, allocated, previous>>

\* return list(set(conjectures))
ConjectureReturn ==
    /\ pc = "graphs"
    /\ gi > Len(graph_db)
    /\ result' = Range(conjectures)
    /\ pc' = "returned"
    /\ UNCHANGED <<graph_invariants, comparator, exprVars, evalVars, invariant,
                   complexity_limit, graph_db, statements, conjectures, gi, raised,
                   runs, allocated, previous>>

NextConjecture ==
    \/ \E cmp \in Comparators, inv \in Range(graph_invariants) : ConjectureCall(cmp, inv)
    \/ ConjectureGraph
    \/ ConjectureReturn
    \/ ConjectureRepeat

SpecConjecture == InitConjecture /\ [][NextConjecture]_vars

\* The expressions a finished call returned.
Returned == Range(returned.value)

(***************************************************************************)
(* Claims about evaluate (specification SpecEvaluate).                     *)
(***************************************************************************)
\* The value of the expression tree a well-formed stack denotes: a leaf is
\* invariant(graph), a unary node op(x), a binary node A . B . op is
\* op(value(A), value(B)); the first error met, left to right, is the outcome.
RefUnary(op, x) == IF x.err # "" THEN x ELSE ApplyUnary(op, x.val)

RefBinary(op, a, b) ==
    IF a.err # "" THEN a ELSE IF b.err # "" THEN b ELSE ApplyBinary(op, a.val, b.val)

RECURSIVE TreeValue(_, _)
TreeValue(stk, gr) ==
    IF IsUnary(Last(stk)) THEN RefUnary(Last(stk), TreeValue(Pop(stk), gr))
    ELSE IF IsBinary(Last(stk))
    THEN RefBinary(Last(stk), TreeValue(OperandA(stk, Len(stk)), gr),
                              TreeValue(OperandB(stk, Len(stk)), gr))
    ELSE InvariantValue(Last(stk), gr)

\* C3: evaluate on a well-formed stack equals the evaluation of the
\* expression tree, where A . B . op is op(value(A), value(B)) for every
\* binary operator, the noncommutative ones included.
C3_EvaluateIsTreeValue ==
    (pc = "evaluated" /\ WellFormed(expression)) =>
        value = TreeValue(expression, g)

\* C9: GraphStatement.evaluate returns comparator(lhs value, rhs value) when
\* both sides evaluate, returns False when the side it evaluates raises
\* ValueError or ZeroDivisionError, and raises every other error of a side.
C9_StatementEvaluate ==
    pc = "statement_evaluated" =>
        LET lv == evaluate(lhs, g)
            rv == evaluate(rhs, g)
        IN /\ (lv.err = "" /\ rv.err = "")
                => truth = Ok(Compare(comparator, lv.val, rv.val))
           /\ (lv.err \in Caught \/ (lv.err = "" /\ rv.err \in Caught))
                => truth = Ok(FALSE)
           /\ (lv.err \notin Caught \cup {""})
                => (truth.err = lv.err /\ truth.err # "")
           /\ (lv.err = "" /\ rv.err \notin Caught \cup {""})
                => (truth.err = rv.err /\ truth.err # "")

\* a statement whose left side divides by zero and whose comparator would
\* have held of the two sides otherwise: it is False, nothing is raised
C9_Witness ==
    /\ pc = "statement_evaluated"
    /\ evaluate(lhs, g).err = "ZeroDivisionError"
    /\ evaluate(rhs, g).err = ""
    /\ comparator = "ne"
    /\ truth = Ok(FALSE)

(***************************************************************************)
(* Claims about conjecture (specification SpecConjecture).                 *)
(***************************************************************************)
\* the candidate statements of the call
Candidates == Range(statements)

\* the corpus graphs
CorpusIndices == 1..Len(graph_db)

IsTrueOn(s, gr) == StatementEvaluate(s.lhs, s.comparator, s.rhs, gr) = Ok(TRUE)

LhsValue(s, gr) == evaluate(s.lhs, gr).val

\* the candidates true on the graph
TrueOn(gr) == { s \in Candidates : IsTrueOn(s, gr) }

\* the left-hand values the candidates true on the graph have there
TrueValues(gr) == { LhsValue(s, gr) : s \in TrueOn(gr) }

\* the largest and the smallest number of a set, as a set (empty if the set is)
Largest(S) == { v \in S : \A w \in S : w <= v }

Smallest(S) == { v \in S : \A w \in S : w >= v }

\* the candidates true on the graph whose left-hand value there is the
\* maximum among the candidates true on the graph
TightestUpper(gr) ==
    UNION { { s \in TrueOn(gr) : LhsValue(s, gr) = best } : best \in Largest(TrueValues(gr)) }

\* the candidates true on the graph whose left-hand value there is the
\* minimum among the candidates true on the graph
TightestLower(gr) ==
    UNION { { s \in TrueOn(gr) : LhsValue(s, gr) = best } : best \in Smallest(TrueValues(gr)) }

C2_TightestLowerBounds ==
    (comparator \in {"gt", "ge"} /\ pc = "returned") =>
        /\ \A e \in result : e.type = "GraphStatement"
        /\ { e \in result : e.type = "GraphStatement" }
             = UNION { TightestLower(graph_db[i]) : i \in CorpusIndices }

\* the candidates the comparator's rule selects on the graph
SelectedOn(gr) ==
    IF comparator \in {"lt", "le"} THEN TightestUpper(gr)
    ELSE IF comparator \in {"gt", "ge"} THEN TightestLower(gr)
    ELSE TrueOn(gr)

\* the elements of the returned collection that are the statement or hold it
Appearances(s) ==
    { e \in result :
        \/ (e.type = "GraphStatement" /\ e.id = s.id)
        \/ (e.type = "tuple" /\ e.second = s) }

\* C10: for every comparator, a statement selected on two or more corpus
\* graphs appears exactly once in the collection conjecture returns.
C10_SelectedTwiceAppearsOnce ==
    pc = "returned" =>
        \A s \in Candidates :
            (\E i, j \in CorpusIndices :
                i # j /\ s \in SelectedOn(graph_db[i]) /\ s \in SelectedOn(graph_db[j]))
              => Cardinality(Appearances(s)) = 1

(***************************************************************************)
(* Claims about all_expressions (specification SpecExpressions).           *)
(***************************************************************************)
\* C4: every expression returned by all_expressions(c, without), c >= 1, has
\* a stack of exactly c elements.
C4_ComplexityAccounting ==
    (pc = "returned" /\ complexity >= 1) =>
        \A e \in Returned : Len(e) = complexity

C4_Witness ==
    /\ pc = "returned"
    /\ complexity >= 3
    /\ \E e \in Returned : IsBinary(e[Len(e)]) /\ Len(e) = complexity

\* C5: every expression returned by all_expressions(c, without), c >= 1, is a
\* well-formed postfix program: the simulated stack never underflows and holds
\* exactly one value at the end.
C5_WellFormed ==
    (pc = "returned" /\ complexity >= 1) =>
        \A e \in Returned :
            /\ \A n \in 0..Len(e) : Height(e, n) >= 0
            /\ Height(e, Len(e)) = 1

\* a result whose last operator is binary and whose second operand is itself
\* the result of a unary operator: the stack holds two values in between
C5_Witness ==
    /\ pc = "returned"
    /\ complexity >= 4
    /\ \E e \in Returned :
          /\ IsBinary(e[Len(e)])
          /\ \E n \in 1..Len(e) : IsUnary(e[n]) /\ Height(e, n) = 2

\* C6: no returned expression contains, at any depth, a subtraction or a
\* division whose two operand sub-stacks are structurally identical.
C6_NoSelfTrivial ==
    pc = "returned" =>
        \A e \in Returned :
            \A p \in 1..Len(e) :
                e[p] \in {"sub", "truediv"} => OperandA(e, p) # OperandB(e, p)

\* a call whose result has a nested subtraction and a power of an expression
\* by itself (the pairing the skip is about, with the operator it lets pass)
C6_Witness ==
    /\ pc = "returned"
    /\ complexity >= 4
    /\ \E e \in Returned :
          \E p \in 1..(Len(e) - 1) : e[p] = "sub"
    /\ \E e \in Returned :
          \E p \in 1..Len(e) : e[p] = "pow" /\ OperandA(e, p) = OperandB(e, p)

\* C7: for a commutative operator op and structurally distinct generated
\* sub-expressions a, b with complexity(a) + complexity(b) = c - 1, the result
\* of all_expressions(c, without) does not contain both a.b.op and b.a.op.
C7_CommutativeNonDuplication ==
    (pc = "returned" /\ complexity >= 1) =>
        \A i \in 1..(complexity - 2) :
            \A a \in Range(all_expressions(i, without).value) :
                \A b \in Range(all_expressions(complexity - 1 - i, without).value) :
                    \A op \in Range(binary_commutative_operators) :
                        a # b =>
                            ~ ( /\ append(extend(a, b), op) \in Returned
                                /\ append(extend(b, a), op) \in Returned )

\* results with a commutative pairing of two distinct sub-expressions, of
\* equal complexity (c = 3) or of different complexity (c = 4)
C7_Witness ==
    /\ pc = "returned"
    /\ complexity \in {3, 4}
    /\ \E e \in Returned :
          /\ e[Len(e)] \in Range(binary_commutative_operators)
          /\ OperandA(e, Len(e)) # OperandB(e, Len(e))
          /\ complexity = 3 => Len(OperandA(e, Len(e))) = Len(OperandB(e, Len(e)))
          /\ complexity = 4 => Len(OperandA(e, Len(e))) # Len(OperandB(e, Len(e)))

\* C8: no expression returned by all_expressions(c, without=X), c >= 1,
\* contains X; at complexity 1 with a registry of exactly two leaf invariants
\* the result has exactly one expression.
C8_Exclusion ==
    (pc = "returned" /\ complexity >= 1 /\ without # "None") =>
        /\ \A e \in Returned : without \notin Range(e)
        /\ (complexity = 1 /\ Len(graph_invariants) = 2
              /\ without \in Range(graph_invariants))
             => Len(returned.value) = 1

C8_Witness ==
    /\ pc = "returned"
    /\ complexity = 1
    /\ Len(graph_invariants) = 2
    /\ without = "alpha"
    /\ returned.value = << <<"min_degree">> >>

(***************************************************************************)
(* Further claims about conjecture (specification SpecConjecture).         *)
(***************************************************************************)
\* the candidates true on at least one of the first n corpus graphs
TrueSomewhere(n) ==
    { s \in Candidates : \E i \in 1..n : IsTrueOn(s, graph_db[i]) }

\* C11: for comparator = or !=, the result of conjecture is exactly the set
\* of candidates that are true on at least one corpus graph, unfiltered. The
\* list conjectures holds that set for the graphs the loop has passed.
C11_AllTrueStatements ==
    (comparator \in {"eq", "ne"} /\ pc \in {"graphs", "raised", "returned"}) =>
        /\ Range(conjectures) = TrueSomewhere(gi - 1)
        /\ pc = "returned" => result = TrueSomewhere(Len(graph_db))

\* a returned result of two graphs or more that holds two candidates true on
\* the same graph with different left-hand values there (nothing was filtered
\* by tightness) and a candidate that is false on one of the graphs
C11_Witness ==
    /\ pc = "returned"
    /\ comparator \in {"eq", "ne"}
    /\ Len(graph_db) >= 2
    /\ \E s, t \in result : \E i \in CorpusIndices :
          /\ IsTrueOn(s, graph_db[i])
          /\ IsTrueOn(t, graph_db[i])
          /\ LhsValue(s, graph_db[i]) # LhsValue(t, graph_db[i])
    /\ \E s \in result : \E i \in CorpusIndices : ~ IsTrueOn(s, graph_db[i])

\* C12: a run never raises because of one graph: when the pool is not empty
\* and no candidate is true on a corpus graph, the loop goes on to the next
\* graph (the graph contributes nothing) and the call completes.
C12_GraphWithoutTrueCandidate ==
    (pc = "raised" /\ Candidates # {}) =>
        \E s \in Candidates : IsTrueOn(s, graph_db[gi])

\* C13: when the target is the only leaf invariant of the registry (the pool
\* of candidates is empty), conjecture returns the empty set and does not
\* raise, whatever the comparator.
C13_EmptyPool ==
    (/\ Range(graph_invariants) = {invariant}
     /\ complexity_limit >= 1
     /\ pc \in {"graphs", "raised", "returned"}) =>
        /\ pc # "raised"
        /\ pc = "returned" => result = {}

\* C14: a call with an invalid configuration (complexity limit below 1, or an
\* empty corpus) fails with a configuration error before it enumerates: it
\* never gets to its candidates, its loop or its return.
C14_InvalidConfiguration ==
    (complexity_limit < 1 \/ graph_db = <<>>) =>
        \/ pc = "ready"
        \/ pc = "raised" /\ raised = "ConfigurationError"

\* the statement an element of the returned collection is or holds
StatementOf(e) == IF e.type = "tuple" THEN e.second ELSE e

\* C16: every statement conjecture(comparator, target) returns has the given
\* comparator, the right-hand side [target], and a left-hand side of 1 to
\* complexity limit elements that does not contain the target.
C16_ReturnedStatementShape ==
    pc = "returned" =>
        \A e \in result :
            /\ StatementOf(e).comparator = comparator
            /\ StatementOf(e).rhs = <<invariant>>
            /\ Len(StatementOf(e).lhs) \in 1..complexity_limit
            /\ invariant \notin Range(StatementOf(e).lhs)

\* a returned result with a statement at the complexity limit and one below
C16_Witness ==
    /\ pc = "returned"
    /\ complexity_limit >= 3
    /\ \E e \in result : Len(StatementOf(e).lhs) = complexity_limit
    /\ \E e \in result : Len(StatementOf(e).lhs) = 1

(***************************************************************************)
(* Further claims about evaluate and all_expressions.                      *)
(***************************************************************************)
\* C19: evaluate of a malformed stack (values left over, an operator with too
\* few values, an element with no role in the registry) ends in an error; it
\* never returns a value.
C19_MalformedRaises ==
    (pc = "evaluated" /\ ~ WellFormed(expression)) => value.err # ""

\* C20: all_expressions(c, without) with c <= 0 returns an empty sequence of
\* expressions, which a caller can iterate over.
C20_NonPositiveComplexity ==
    (pc = "returned" /\ complexity <= 0) => returned = PyList(<<>>)

(***************************************************************************)
(* Claims about calls that follow one another, and about equality.         *)
(***************************************************************************)
\* the (left stack, comparator, right stack) triple of a statement
Triple(s) == << s.lhs, s.comparator, s.rhs >>

\* what an element of a returned collection says: the statement it is or
\* holds, by its triple, and the value it carries if it is a tuple
Content(e) ==
    [ kind |-> e.type,
      value |-> IF e.type = "tuple" THEN e.first ELSE 0,
      statement |-> Triple(StatementOf(e)) ]

C18_StructuralEquality ==
    \A s \in Range(statements) \cup Range(previous.statements) :
        \A t \in Range(statements) \cup Range(previous.statements) :
            StatementEquals(s, t) <=> Triple(s) = Triple(t)

Class(i) == Range(all_expressions(i, without).value)

\* the stack a . b . op
Joined(a, b, op) == a \o b \o <<op>>

\* C21: for c >= 3, every split i in 1..c-2, every a of complexity i, every b
\* of complexity c-1-i and every noncommutative operator op, a.b.op is in
\* all_expressions(c, w) unless a and b are identical and op is subtraction
\* or division, and then it is not (a.a.pow is generated).
C21_NoncommutativeCompleteness ==
    (pc = "returned" /\ complexity >= 3) =>
        \A i \in 1..(complexity - 2) :
            \A a \in Class(i) : \A b \in Class(complexity - 1 - i) :
                \A op \in Range(binary_noncommutative_operators) :
                    Joined(a, b, op) \in Returned
                        <=> ~ (a = b /\ op \in {"sub", "truediv"})

\* a result with a.b.sub and b.a.sub for distinct a and b, and with a.a.pow
\* but not a.a.sub
C21_Witness ==
    /\ pc = "returned"
    /\ complexity >= 3
    /\ \E a \in Class(1) : \E b \in Class(complexity - 2) :
          /\ a # b
          /\ Joined(a, b, "sub") \in Returned
          /\ Joined(b, a, "sub") \in Returned
    /\ \E a \in Class(1) :
          /\ Joined(a, a, "pow") \in Returned
          /\ Joined(a, a, "sub") \notin Returned

\* C22: for c >= 3, every split k in 1..c-2, every a of complexity k, every b
\* of complexity c-1-k (a = b included) and every commutative operator op, at
\* least one of a.b.op and b.a.op is in all_expressions(c, w).
C22_CommutativeCoverage ==
    (pc = "returned" /\ complexity >= 3) =>
        \A k \in 1..(complexity - 2) :
            \A a \in Class(k) : \A b \in Class(complexity - 1 - k) :
                \A op \in Range(binary_commutative_operators) :
                    \/ Joined(a, b, op) \in Returned
                    \/ Joined(b, a, op) \in Returned

\* a result where a pair of distinct expressions is there in one order only,
\* and an expression is paired with itself
C22_Witness ==
    /\ pc = "returned"
    /\ complexity >= 3
    /\ \E k \in 1..(complexity - 2) :
          \E a \in Class(k) : \E b \in Class(complexity - 1 - k) :
              /\ a # b
              /\ Joined(a, b, "add") \in Returned
              /\ Joined(b, a, "add") \notin Returned
    /\ \E a \in Class(1) : Joined(a, a, "mul") \in Returned

\* C23: for c >= 1 the sequence all_expressions(c, without) returns holds no
\* stack twice.
C23_SyntacticDistinctness ==
    (pc = "returned" /\ complexity >= 1) =>
        Cardinality(Returned) = Len(returned.value)

\* a result with entries of the three strategies
C23_Witness ==
    /\ pc = "returned"
    /\ complexity >= 4
    /\ \E e \in Returned : IsUnary(e[Len(e)])
    /\ \E e \in Returned : e[Len(e)] \in Range(binary_noncommutative_operators)
    /\ \E e \in Returned : e[Len(e)] \in Range(binary_commutative_operators)

\* C25: if without excludes the only leaf invariant of the registry,
\* all_expressions(c, without) is empty for every c >= 1.
C25_EmptyClassPropagates ==
    (pc = "returned" /\ complexity >= 1 /\ Range(graph_invariants) = {without}) =>
        returned = PyList(<<>>)

\* such a call at a complexity where all three loops ran
C25_Witness ==
    /\ pc = "returned"
    /\ complexity >= 4
    /\ Range(graph_invariants) = {without}
    /\ returned = PyList(<<>>)

\* C26: every call all_expressions(c, without) terminates: every recursive
\* call made at a complexity d >= 2 has a complexity argument in 1..d-1, so
\* a call with c >= 1 never takes the complexity < 1 branch, at any depth,
\* and it returns a list.
C26_RecursionWellFounded ==
    (pc \in {"unary", "noncommutative", "commutative", "returned"} /\ complexity >= 1) =>
        /\ \A d \in 2..complexity :
              \A n \in 1..Len(RecursiveCalls(d)) :
                  /\ RecursiveCalls(d)[n] \in 1..(d - 1)
                  /\ all_expressions(RecursiveCalls(d)[n], without).type = "list"
        /\ pc = "returned" => returned.type = "list"

\* a finished call that made calls at every lower complexity
C26_Witness ==
    /\ pc = "returned"
    /\ complexity >= 4
    /\ Range(RecursiveCalls(complexity)) = 1..(complexity - 1)
    /\ returned.value # <<>>

(***************************************************************************)
(* Claims about the memoized all_expressions (specification SpecMemoize).  *)
(***************************************************************************)
\* every cached result is what the unmemoized recursion returns for its key
CacheIntact ==
    \A key \in DOMAIN cache : cache[key] = all_expressions(key[1], key[2])

\* C24: all_expressions wrapped in memoize returns, for every sequence of
\* calls, the expressions the unmemoized recursion returns, in the same
\* order, and no cached result is altered by a later call.
C24_MemoizedEqualsUnmemoized ==
    pc # "ready" =>
        /\ pc = "returned"
        /\ returned = all_expressions(complexity, without)
        /\ CacheIntact

\* The same for the calls that pass their arguments by position.
MemoizedPositionalCalls ==
    /\ CacheIntact
    /\ pc = "returned" => returned = all_expressions(complexity, without)

====
